---------------------------- MODULE Spec2Model ----------------------------
(***************************************************************************)
(* Model of src/utils/flatten_map.py: the map flattening script.           *)
(*                                                                         *)
(* Strings are sequences of one-character strings, so that the coordinate  *)
(* key conversions (Coordinates.from_string / to_string) and the block     *)
(* name normalisation (upper, '-' -> '_') are computed as the code         *)
(* computes them. A dict is a function whose domain is the set of its      *)
(* keys. main() is a linear pipeline; pc is the statement main() is at.    *)
(***************************************************************************)
EXTENDS Integers, Sequences, FiniteSets, TLC

VARIABLES
    pc,                 \* position of main(): the statement to run next
    run,                \* number of the current invocation of the script
    source_file,        \* contents of SOURCE_MAP_PATH on disk
    save_file,          \* contents of SAVE_MAP_PATH on disk
    map_data,           \* main(): map_data
    block_types,        \* main(): block_types
    bounds,             \* main(): bounds
    center,             \* main(): center
    new_blocks,         \* main(): new_blocks
    underground_blocks, \* main(): underground_blocks
    err,                \* the exception that ended the run ("" while none)
    pre,                \* history: both files as they were when the run began
    history             \* history: what each completed run computed

vars == <<pc, run, source_file, save_file, map_data, block_types, bounds,
          center, new_blocks, underground_blocks, err, pre, history>>

-----------------------------------------------------------------------------
(* Program constants *)

TARGET_HEIGHT == 0

CENTER_MARKER_HEIGHT == 2

-----------------------------------------------------------------------------
(* Bounds of the model *)

\* x of an input block ranges over -MaxCoord..0
MaxCoord == 1

\* an input mapping holds at most MaxBlocks blocks
MaxBlocks == 2

\* the script is invoked at most MaxRuns times in a row
MaxRuns == 2

-----------------------------------------------------------------------------
(* Strings *)

Digits == <<"0", "1", "2", "3", "4", "5", "6", "7", "8", "9">>

LowerCase == <<"a", "b", "c", "d", "e", "f", "g", "h", "i", "j", "k", "l", "m",
               "n", "o", "p", "q", "r", "s", "t", "u", "v", "w", "x", "y", "z">>

UpperCase == <<"A", "B", "C", "D", "E", "F", "G", "H", "I", "J", "K", "L", "M",
               "N", "O", "P", "Q", "R", "S", "T", "U", "V", "W", "X", "Y", "Z">>

Range(s) == {s[i] : i \in DOMAIN s}

DigitValues == [c \in Range(Digits) |-> (CHOOSE i \in DOMAIN Digits : Digits[i] = c) - 1]

UpperOf ==
    [c \in Range(LowerCase) |-> UpperCase[CHOOSE i \in DOMAIN LowerCase : LowerCase[i] = c]]

IsDigit(c) == c \in DOMAIN DigitValues

DigitVal(c) == DigitValues[c]

\* str.upper() on one character
UpperChar(c) == IF c \in DOMAIN UpperOf THEN UpperOf[c] ELSE c

\* str.upper()
Upper(s) == [i \in DOMAIN s |-> UpperChar(s[i])]

\* str.replace(old, new) for one-character old and new
Replace(s, old, new) == [i \in DOMAIN s |-> IF s[i] = old THEN new ELSE s[i]]

RECURSIVE NatToStr(_)
\* the decimal digits of n >= 0, as format() writes them
NatToStr(n) ==
    IF n < 10 THEN <<Digits[n + 1]>>
    ELSE NatToStr(n \div 10) \o <<Digits[(n % 10) + 1]>>

\* f"{n}" of an int
IntToStr(n) == IF n < 0 THEN <<"-">> \o NatToStr(-n) ELSE NatToStr(n)

RECURSIVE Split(_, _)
\* str.split(sep) for a one-character sep
Split(s, sep) ==
    IF s = <<>> THEN <<<<>>>>
    ELSE LET rest == Split(Tail(s), sep)
         IN  IF Head(s) = sep THEN <<<<>>>> \o rest
             ELSE <<<<Head(s)>> \o rest[1]>> \o Tail(rest)

RECURSIVE Strip(_)
\* str.strip(): int() ignores surrounding whitespace
Strip(s) ==
    IF s = <<>> THEN s
    ELSE IF Head(s) = " " THEN Strip(Tail(s))
    ELSE IF s[Len(s)] = " " THEN Strip(SubSeq(s, 1, Len(s) - 1))
    ELSE s

RECURSIVE DigitsToNat(_)
\* the value of a string of digits and '_' separators
DigitsToNat(s) ==
    IF s = <<>> THEN 0
    ELSE IF s[Len(s)] = "_" THEN DigitsToNat(SubSeq(s, 1, Len(s) - 1))
    ELSE 10 * DigitsToNat(SubSeq(s, 1, Len(s) - 1)) + DigitVal(s[Len(s)])

\* a digit string int() accepts: digits, with single '_' between digits
IsDigitString(s) ==
    /\ s # <<>>
    /\ \A i \in DOMAIN s : IsDigit(s[i]) \/ s[i] = "_"
    /\ IsDigit(s[1]) /\ IsDigit(s[Len(s)])
    /\ \A i \in 1..(Len(s) - 1) : ~(s[i] = "_" /\ s[i + 1] = "_")

\* int(s): [ok |-> FALSE] stands for ValueError
ParseInt(s) ==
    LET t    == Strip(s)
        sgn  == IF t # <<>> /\ Head(t) \in {"-", "+"} THEN Head(t) ELSE ""
        body == IF sgn = "" THEN t ELSE Tail(t)
    IN  IF IsDigitString(body)
        THEN [ok |-> TRUE,
              val |-> IF sgn = "-" THEN -DigitsToNat(body) ELSE DigitsToNat(body)]
        ELSE [ok |-> FALSE, val |-> 0]

-----------------------------------------------------------------------------
(* Coordinates *)

Coordinates(x, y, z) == [x |-> x, y |-> y, z |-> z]

\* Coordinates.to_string
to_string(c) ==
    IntToStr(c.x) \o <<",">> \o IntToStr(c.y) \o <<",">> \o IntToStr(c.z)

\* Coordinates.from_string: ok = FALSE stands for the ValueError of a wrong
\* field count or of int()
from_string(coord_str) ==
    LET parts == Split(coord_str, ",")
    IN  IF Len(parts) # 3 THEN [ok |-> FALSE, x |-> 0, y |-> 0, z |-> 0]
        ELSE LET px == ParseInt(parts[1])
                 py == ParseInt(parts[2])
                 pz == ParseInt(parts[3])
             IN  IF px.ok /\ py.ok /\ pz.ok
                 THEN [ok |-> TRUE, x |-> px.val, y |-> py.val, z |-> pz.val]
                 ELSE [ok |-> FALSE, x |-> 0, y |-> 0, z |-> 0]

\* MapBounds; set = FALSE before main() has computed it
MapBounds(min_x, max_x, min_z, max_z) ==
    [set |-> TRUE, min_x |-> min_x, max_x |-> max_x,
     min_z |-> min_z, max_z |-> max_z]

NoBounds == [set |-> FALSE, min_x |-> 0, max_x |-> 0, min_z |-> 0, max_z |-> 0]

NoCenter == [set |-> FALSE, x |-> 0, z |-> 0]

\* a center that truncates toward zero instead of flooring
CenterTruncating(b) ==
    LET trunc(n) == IF n < 0 THEN -((-n) \div 2) ELSE n \div 2
    IN  [set |-> TRUE, x |-> trunc(b.min_x + b.max_x),
         z |-> trunc(b.min_z + b.max_z)]

\* MapBounds.center: Python's // floors, as \div does
MapBoundsCenter(b) ==
    [set |-> TRUE, x |-> (b.min_x + b.max_x) \div 2,
     z |-> (b.min_z + b.max_z) \div 2]

-----------------------------------------------------------------------------
(* Dicts *)

EmptyDict == [k \in {} |-> 0]

\* dict.update: the entries of b win
Update(a, b) ==
    [k \in (DOMAIN a) \cup (DOMAIN b) |-> IF k \in DOMAIN b THEN b[k] ELSE a[k]]

Min(S) == CHOOSE m \in S : \A n \in S : m <= n

Max(S) == CHOOSE m \in S : \A n \in S : m >= n

\* the result of a call: ok = FALSE when it raised err
Ok(v) == [ok |-> TRUE, err |-> "", val |-> v]

Raise(e) == [ok |-> FALSE, err |-> e, val |-> EmptyDict]

-----------------------------------------------------------------------------
(* Block types *)

\* a BlockData record; textureUri is only ever printed and is left out
BlockData(id, name, isLiquid) == [id |-> id, name |-> name, isLiquid |-> isLiquid]

\* the attribute names main() reads
GRASS == <<"G", "R", "A", "S", "S">>

WATER_STILL == <<"W", "A", "T", "E", "R", "_", "S", "T", "I", "L", "L">>

STONE_BRICKS == <<"S", "T", "O", "N", "E", "_", "B", "R", "I", "C", "K", "S">>

\* attr_name of BlockTypes.__init__
AttrName(name) == Replace(Upper(name), "-", "_")

\* BlockTypes.__init__: setattr in table order, so the last entry of a
\* name wins; blocks is self._blocks
BlockTypes(table) ==
    [attrs |->
        [a \in {AttrName(table[i].name) : i \in DOMAIN table} |->
            table[Max({i \in DOMAIN table : AttrName(table[i].name) = a})].id],
     blocks |->
        [id \in {table[i].id : i \in DOMAIN table} |->
            table[Max({i \in DOMAIN table : table[i].id = id})]]]

NoBlockTypes == [attrs |-> EmptyDict, blocks |-> EmptyDict]

\* whether block_types.<name> resolves; if not the access raises
\* AttributeError
HasAttr(bt, name) == name \in DOMAIN bt.attrs

-----------------------------------------------------------------------------
(* The transform *)

\* get_map_bounds: every key is parsed first, then min()/max() run over the
\* coordinates; min() of an empty sequence raises ValueError
get_map_bounds(blocks) ==
    LET keys   == DOMAIN blocks
        coords == {from_string(k) : k \in keys}
    IN  IF \E k \in keys : ~from_string(k).ok
        THEN [ok |-> FALSE, err |-> "ValueError: invalid coordinate key",
              val |-> NoBounds]
        ELSE IF keys = {}
        THEN [ok |-> FALSE, err |-> "ValueError: min() arg is an empty sequence",
              val |-> NoBounds]
        ELSE [ok |-> TRUE, err |-> "",
              val |-> MapBounds(Min({c.x : c \in coords}), Max({c.x : c \in coords}),
                                Min({c.z : c \in coords}), Max({c.z : c \in coords}))]

\* the keys of the surface layer over a rectangle
SurfaceKeys(xs, zs) ==
    {to_string(Coordinates(x, TARGET_HEIGHT, z)) : x \in xs, z \in zs}

\* a surface whose ranges leave out max_x and max_z
CreateFlatSurfaceExclusive(b, bt) ==
    LET cells == SurfaceKeys(b.min_x..(b.max_x - 1), b.min_z..(b.max_z - 1))
    IN  IF ~HasAttr(bt, GRASS) THEN Raise("AttributeError: GRASS")
        ELSE Ok([k \in cells |-> bt.attrs[GRASS]])

\* a surface that stands in the ID 0 for a GRASS the table lacks
CreateFlatSurfaceDefaultId(b, bt) ==
    LET cells == SurfaceKeys(b.min_x..b.max_x, b.min_z..b.max_z)
    IN  Ok([k \in cells |-> IF HasAttr(bt, GRASS) THEN bt.attrs[GRASS] ELSE 0])

\* create_flat_surface: block_types.GRASS is read in the loop body, which
\* runs at least once since min <= max
create_flat_surface(b, bt) ==
    LET cells == SurfaceKeys(b.min_x..b.max_x, b.min_z..b.max_z)
    IN  IF cells # {} /\ ~HasAttr(bt, GRASS) THEN Raise("AttributeError: GRASS")
        ELSE Ok([k \in cells |-> bt.attrs[GRASS]])

\* water kept only strictly below the target height
RetainedWaterStrict(coord, block_id, water) ==
    coord.y < TARGET_HEIGHT

\* every block kept at or below the target height
RetainedAllAtSurface(coord, block_id, water) ==
    coord.y <= TARGET_HEIGHT

\* other blocks kept only two or more below the target height
RetainedOtherDeeper(coord, block_id, water) ==
    IF block_id = water THEN coord.y <= TARGET_HEIGHT
    ELSE coord.y < TARGET_HEIGHT - 1

\* the two conditionals of the loop body of process_existing_blocks
Retained(coord, block_id, water) ==
    IF block_id = water THEN coord.y <= TARGET_HEIGHT
    ELSE coord.y < TARGET_HEIGHT

\* process_existing_blocks: block_types.WATER_STILL is read for every item.
\* (get_map_bounds has parsed every key before, so from_string cannot raise
\* here in main().)
process_existing_blocks(blocks, bt) ==
    IF DOMAIN blocks = {} THEN Ok(EmptyDict)
    ELSE IF \E k \in DOMAIN blocks : ~from_string(k).ok
    THEN Raise("ValueError: invalid coordinate key")
    ELSE IF ~HasAttr(bt, WATER_STILL) THEN Raise("AttributeError: WATER_STILL")
    ELSE LET kept == {k \in DOMAIN blocks :
                         Retained(from_string(k), blocks[k], bt.attrs[WATER_STILL])}
         IN  Ok([k \in kept |-> blocks[k]])

\* the surface layer keeps its cell where a retained block has the same key
MergeSurfaceWins(surface, retained) == Update(retained, surface)

\* new_blocks.update(underground_blocks): the retained block wins
merge_retained(surface, retained) == Update(surface, retained)

\* the keys of the marker cells above a center
MarkerKeys(c) ==
    {to_string(Coordinates(c.x, TARGET_HEIGHT + h, c.z)) :
        h \in 1..CENTER_MARKER_HEIGHT}

\* add_center_marker: the dict with the marker written into it
add_center_marker(blocks, c, bt) ==
    IF MarkerKeys(c) # {} /\ ~HasAttr(bt, STONE_BRICKS)
    THEN Raise("AttributeError: STONE_BRICKS")
    ELSE Ok(Update(blocks, [k \in MarkerKeys(c) |-> bt.attrs[STONE_BRICKS]]))

-----------------------------------------------------------------------------
(* Files *)

\* what a path holds: no file, a file cut short by a failed write, or a
\* JSON document. json.dump followed by json.load gives back the same
\* blockTypes list and the same str -> int mapping, so a document on disk is
\* the document itself.
NoFile == [kind |-> "missing", blockTypes |-> <<>>, blocks |-> EmptyDict]

Truncated == [kind |-> "truncated", blockTypes |-> <<>>, blocks |-> EmptyDict]

Document(table, blocks) == [kind |-> "json", blockTypes |-> table, blocks |-> blocks]

NoMapData == [kind |-> "none", blockTypes |-> <<>>, blocks |-> EmptyDict]

\* load_map: open() raises for a missing file, json.load for a broken one
load_map(file) ==
    IF file.kind = "missing"
    THEN [ok |-> FALSE, err |-> "FileNotFoundError", val |-> NoMapData]
    ELSE IF file.kind = "truncated"
    THEN [ok |-> FALSE, err |-> "JSONDecodeError", val |-> NoMapData]
    ELSE [ok |-> TRUE, err |-> "", val |-> file]

-----------------------------------------------------------------------------
(* Inputs *)

grass == <<"g", "r", "a", "s", "s">>

water_still == <<"w", "a", "t", "e", "r", "-", "s", "t", "i", "l", "l">>

stone_bricks == <<"s", "t", "o", "n", "e", "-", "b", "r", "i", "c", "k", "s">>

lava == <<"l", "a", "v", "a">>

stone == <<"s", "t", "o", "n", "e">>

\* the IDs of the block types of the input tables
Ids == [grass |-> 1, water |-> 2, bricks |-> 3, lava |-> 4, stone |-> 5, old_water |-> 9]

GrassId == Ids.grass

WaterId == Ids.water

BricksId == Ids.bricks

LavaId == Ids.lava

StoneId == Ids.stone

OldWaterId == Ids.old_water

FullTable ==
    <<BlockData(GrassId, grass, FALSE), BlockData(WaterId, water_still, TRUE),
      BlockData(BricksId, stone_bricks, FALSE), BlockData(LavaId, lava, TRUE),
      BlockData(StoneId, stone, FALSE)>>

\* the same types under names that need normalising, and a second entry of
\* the water name
MixedCaseTable ==
    <<BlockData(GrassId, <<"G", "r", "a", "s", "s">>, FALSE),
      BlockData(OldWaterId, <<"W", "A", "T", "E", "R", "_", "s", "t", "i", "l", "l">>, TRUE),
      BlockData(WaterId, <<"W", "a", "t", "e", "r", "-", "S", "t", "i", "l", "l">>, TRUE),
      BlockData(BricksId, <<"s", "t", "o", "n", "e", "_", "B", "R", "I", "C", "K", "S">>, FALSE),
      BlockData(LavaId, lava, TRUE), BlockData(StoneId, stone, FALSE)>>

Without(table, name) == SelectSeq(table, LAMBDA b : b.name # name)

DefectiveTables ==
    {Without(FullTable, grass), Without(FullTable, water_still),
     Without(FullTable, stone_bricks)}

XCoords == (-MaxCoord)..0

YCoords == (TARGET_HEIGHT - 1)..(TARGET_HEIGHT + 1)

ZCoords == 0..1

CanonicalKeys ==
    {to_string(Coordinates(x, y, z)) : x \in XCoords, y \in YCoords, z \in ZCoords}

\* "-1, +0, 01": a key int() accepts that to_string never writes
PaddedKey == <<"-", "1", ",", " ", "+", "0", ",", " ", "0", "1">>

\* "0,1_0,0": y = 10
UnderscoreKey == <<"0", ",", "1", "_", "0", ",", "0">>

\* "0,0": two fields;  "0,,0": an empty field
MalformedKeys == {<<"0", ",", "0">>, <<"0", ",", ",", "0">>}

OddKeys == {PaddedKey, UnderscoreKey} \cup MalformedKeys

\* the dicts with keys from K, values from V and at most n entries
Dicts(K, V, n) ==
    UNION {[S -> V] : S \in {T \in SUBSET K : Cardinality(T) <= n}}

InputDocuments ==
    \* water and stone, anywhere
    {Document(FullTable, b) : b \in Dicts(CanonicalKeys, {WaterId, StoneId}, MaxBlocks)}
    \cup
    \* a liquid that is not water, a key that is not canonical or not a key
    {Document(FullTable, Update(b, c)) :
        b \in Dicts(CanonicalKeys, {WaterId, StoneId}, 1),
        c \in Dicts(CanonicalKeys, {LavaId}, 1) \cup Dicts(OddKeys, {WaterId, StoneId}, 1)}
    \cup
    \* block-type tables
    {Document(t, b) :
        t \in DefectiveTables \cup {MixedCaseTable},
        b \in Dicts(CanonicalKeys, {WaterId, StoneId}, 1)}

InputFiles == InputDocuments \cup {NoFile, Truncated}

-----------------------------------------------------------------------------
(* main() *)

NoRun ==
    [input |-> EmptyDict, bounds |-> NoBounds, center |-> NoCenter,
     surface |-> EmptyDict, output |-> EmptyDict, complete |-> FALSE]

ThisRun == history[Len(history)]

Note(field, value) == [history EXCEPT ![Len(history)][field] = value]

Fail(e) ==
    /\ pc' = "failed"
    /\ err' = e

Init ==
    /\ pc = "load"
    /\ run = 1
    /\ source_file \in InputFiles
    /\ save_file = NoFile
    /\ map_data = NoMapData
    /\ block_types = NoBlockTypes
    /\ bounds = NoBounds
    /\ center = NoCenter
    /\ new_blocks = EmptyDict
    /\ underground_blocks = EmptyDict
    /\ err = ""
    /\ pre = [source |-> source_file, save |-> save_file]
    /\ history = <<NoRun>>

\* map_data = load_map(SOURCE_MAP_PATH)
LoadMap ==
    /\ pc = "load"
    /\ LET r == load_map(source_file)
       IN  IF r.ok
           THEN /\ map_data' = r.val
                /\ pc' = "types"
                /\ history' = Note("input", r.val.blocks)
                /\ UNCHANGED err
           ELSE /\ Fail(r.err)
                /\ UNCHANGED <<map_data, history>>
    /\ UNCHANGED <<run, source_file, save_file, block_types, bounds, center,
                   new_blocks, underground_blocks, pre>>

\* block_types = BlockTypes(map_data['blockTypes']); print_block_types()
InitBlockTypes ==
    /\ pc = "types"
    /\ block_types' = BlockTypes(map_data.blockTypes)
    /\ pc' = "bounds"
    /\ UNCHANGED <<run, source_file, save_file, map_data, bounds, center,
                   new_blocks, underground_blocks, err, pre, history>>

\* bounds = get_map_bounds(map_data['blocks']); center = bounds.center
GetMapBounds ==
    /\ pc = "bounds"
    /\ LET r == get_map_bounds(map_data.blocks)
       IN  IF r.ok
           THEN /\ bounds' = r.val
                /\ center' = MapBoundsCenter(r.val)
                /\ pc' = "surface"
                /\ history' = [history EXCEPT ![Len(history)].bounds = r.val,
                                              ![Len(history)].center = MapBoundsCenter(r.val)]
                /\ UNCHANGED err
           ELSE /\ Fail(r.err)
                /\ UNCHANGED <<bounds, center, history>>
    /\ UNCHANGED <<run, source_file, save_file, map_data, block_types,
                   new_blocks, underground_blocks, pre>>

\* new_blocks = create_flat_surface(bounds, block_types)
CreateFlatSurface ==
    /\ pc = "surface"
    /\ LET r == create_flat_surface(bounds, block_types)
       IN  IF r.ok
           THEN /\ new_blocks' = r.val
                /\ pc' = "process"
                /\ history' = Note("surface", r.val)
                /\ UNCHANGED err
           ELSE /\ Fail(r.err)
                /\ UNCHANGED <<new_blocks, history>>
    /\ UNCHANGED <<run, source_file, save_file, map_data, block_types, bounds,
                   center, underground_blocks, pre>>

\* underground_blocks = process_existing_blocks(...);
\* new_blocks.update(underground_blocks)
ProcessExistingBlocks ==
    /\ pc = "process"
    /\ LET r == process_existing_blocks(map_data.blocks, block_types)
       IN  IF r.ok
           THEN /\ underground_blocks' = r.val
                /\ new_blocks' = merge_retained(new_blocks, r.val)
                /\ pc' = "marker"
                /\ UNCHANGED err
           ELSE /\ Fail(r.err)
                /\ UNCHANGED <<new_blocks, underground_blocks>>
    /\ UNCHANGED <<run, source_file, save_file, map_data, block_types, bounds,
                   center, pre, history>>

\* add_center_marker(new_blocks, center, block_types)
AddCenterMarker ==
    /\ pc = "marker"
    /\ LET r == add_center_marker(new_blocks, center, block_types)
       IN  IF r.ok
           THEN /\ new_blocks' = r.val
                /\ pc' = "save"
                /\ history' = Note("output", r.val)
                /\ UNCHANGED err
           ELSE /\ Fail(r.err)
                /\ UNCHANGED <<new_blocks, history>>
    /\ UNCHANGED <<run, source_file, save_file, map_data, block_types, bounds,
                   center, underground_blocks, pre>>

\* a save_map whose failure to open the file is swallowed: main() goes on
SaveMapSwallowsError ==
    /\ pc = "save"
    /\ map_data' = [map_data EXCEPT !.blocks = new_blocks]
    /\ \/ source_file' = map_data'
       \/ UNCHANGED source_file
    /\ pc' = "copy"
    /\ UNCHANGED <<run, save_file, block_types, bounds, center, new_blocks,
                   underground_blocks, err, pre, history>>

\* map_data['blocks'] = new_blocks; save_map(SOURCE_MAP_PATH, map_data).
\* open(filepath, 'w') truncates the file before json.dump writes to it.
SaveMap ==
    /\ pc = "save"
    /\ map_data' = [map_data EXCEPT !.blocks = new_blocks]
    /\ \/ /\ source_file' = map_data'
          /\ pc' = "copy"
          /\ UNCHANGED err
       \/ \* mkdir or open raises OSError: the file is as it was
          /\ Fail("OSError: open source")
          /\ UNCHANGED source_file
       \/ \* a write of json.dump raises OSError: the file is cut short
          /\ Fail("OSError: write source")
          /\ source_file' = Truncated
    /\ UNCHANGED <<run, save_file, block_types, bounds, center, new_blocks,
                   underground_blocks, pre, history>>

\* save_modified_map(SOURCE_MAP_PATH, SAVE_MAP_PATH) and the closing prints
SaveModifiedMap ==
    /\ pc = "copy"
    /\ IF source_file.kind = "missing"
       THEN /\ pc' = "done"
            /\ history' = Note("complete", TRUE)
            /\ UNCHANGED <<save_file, err>>
       ELSE \/ /\ save_file' = source_file
               /\ pc' = "done"
               /\ history' = Note("complete", TRUE)
               /\ UNCHANGED err
            \/ \* mkdir or the open of the copy raises OSError
               /\ Fail("OSError: open copy")
               /\ UNCHANGED <<save_file, history>>
            \/ \* a write of the copy raises OSError: the copy is cut short
               /\ Fail("OSError: write copy")
               /\ save_file' = Truncated
               /\ UNCHANGED history
            \/ \* copy2 has copied the contents and its copystat raises OSError
               /\ Fail("OSError: copystat")
               /\ save_file' = source_file
               /\ UNCHANGED history
    /\ UNCHANGED <<run, source_file, map_data, block_types, bounds, center,
                   new_blocks, underground_blocks, pre>>

\* the script is run again, on the files the run before has left
Rerun ==
    /\ pc = "done"
    /\ run < MaxRuns
    /\ pc' = "load"
    /\ run' = run + 1
    /\ map_data' = NoMapData
    /\ block_types' = NoBlockTypes
    /\ bounds' = NoBounds
    /\ center' = NoCenter
    /\ new_blocks' = EmptyDict
    /\ underground_blocks' = EmptyDict
    /\ pre' = [source |-> source_file, save |-> save_file]
    /\ history' = Append(history, NoRun)
    /\ UNCHANGED <<source_file, save_file, err>>

Next ==
    \/ LoadMap
    \/ InitBlockTypes
    \/ GetMapBounds
    \/ CreateFlatSurface
    \/ ProcessExistingBlocks
    \/ AddCenterMarker
    \/ SaveMap
    \/ SaveModifiedMap
    \/ Rerun

Spec == Init /\ [][Next]_vars

-----------------------------------------------------------------------------
(* Vocabulary of the properties *)

OSErrors ==
    {"OSError: open source", "OSError: write source",
     "OSError: open copy", "OSError: write copy", "OSError: copystat"}

\* main() has built the new mapping, which no later step changes: it is
\* about to store and write it, or has finished. new_blocks is the output
\* mapping.
Rebuilt == pc \in {"save", "done"}

Input == ThisRun.input

Output == new_blocks

\* the ID an attribute name resolves to (-1: the name is missing)
IdOf(name) == IF HasAttr(block_types, name) THEN block_types.attrs[name] ELSE -1

\* the isLiquid flag of an ID in the block-type table
IsLiquid(id) ==
    id \in DOMAIN block_types.blocks /\ block_types.blocks[id].isLiquid

Key(x, y, z) == to_string(Coordinates(x, y, z))

\* the bounding box of the input, computed from the input
InputBounds == get_map_bounds(Input).val

\* the document the run is to write
NewDocument == Document(map_data.blockTypes, ThisRun.output)

FilesAsBefore == source_file = pre.source /\ save_file = pre.save

-----------------------------------------------------------------------------
(* C1 *)

-----------------------------------------------------------------------------
(* C2 *)

\* C2 (as claimed): every input block whose type is flagged isLiquid is
\* absent from the output if its y > TARGET_HEIGHT, and present with the same
\* ID if its y <= TARGET_HEIGHT.
LiquidPruning ==
    Rebuilt =>
        \A k \in DOMAIN Input :
            IsLiquid(Input[k]) =>
                IF from_string(k).y > TARGET_HEIGHT
                THEN ~(k \in DOMAIN Output /\ Output[k] = Input[k])
                ELSE k \in DOMAIN Output /\ Output[k] = Input[k]

\* C2 (amended): every input block whose ID is the WATER_STILL ID is, if its
\* y > TARGET_HEIGHT, dropped (the output has no entry under its key, unless
\* the key is a center-marker cell, which holds the marker ID) and, if its
\* y <= TARGET_HEIGHT, present in the output with the same ID.
WaterPruning ==
    Rebuilt =>
        \A k \in DOMAIN Input :
            Input[k] = IdOf(WATER_STILL) =>
                IF from_string(k).y > TARGET_HEIGHT
                THEN \/ k \notin DOMAIN Output
                     \/ k \in MarkerKeys(center) /\ Output[k] = IdOf(STONE_BRICKS)
                ELSE k \in DOMAIN Output /\ Output[k] = Input[k]

\* water above the surface was dropped and water at the surface was kept
WaterPrunedAndKept ==
    /\ Rebuilt
    /\ \E k \in DOMAIN Input :
          /\ Input[k] = IdOf(WATER_STILL)
          /\ from_string(k).y > TARGET_HEIGHT
          /\ k \notin DOMAIN Output
    /\ \E k \in DOMAIN Input :
          /\ Input[k] = IdOf(WATER_STILL)
          /\ from_string(k).y = TARGET_HEIGHT
          /\ k \in DOMAIN Output

-----------------------------------------------------------------------------
(* C3 *)

\* C3: every non-liquid input block with y < TARGET_HEIGHT is in the output
\* under the same key with the same ID (and is among the retained blocks the
\* surface and the marker are merged with).
SubSurfacePreservation ==
    Rebuilt =>
        \A k \in DOMAIN Input :
            (~IsLiquid(Input[k]) /\ from_string(k).y < TARGET_HEIGHT) =>
                /\ k \in DOMAIN underground_blocks
                /\ k \in DOMAIN Output
                /\ Output[k] = Input[k]

\* a stone below the surface, in the center column, was kept
SubSurfaceBlockKept ==
    /\ Rebuilt
    /\ \E k \in DOMAIN Input :
          /\ ~IsLiquid(Input[k])
          /\ from_string(k).y < TARGET_HEIGHT
          /\ from_string(k).x = center.x /\ from_string(k).z = center.z
          /\ Output[k] = Input[k]

-----------------------------------------------------------------------------
(* C4 *)

\* C4: every (x, z) column of the input's bounding box has a block at
\* y = TARGET_HEIGHT in the output, also a column the input had no block in.
NoGaps ==
    Rebuilt =>
        LET b == InputBounds
        IN  \A x \in b.min_x..b.max_x, z \in b.min_z..b.max_z :
                \E k \in DOMAIN Output :
                    from_string(k) = [ok |-> TRUE, x |-> x, y |-> TARGET_HEIGHT, z |-> z]

\* the surface covers a column the input had no block in
EmptyColumnCovered ==
    /\ Rebuilt
    /\ \E x \in bounds.min_x..bounds.max_x, z \in bounds.min_z..bounds.max_z :
          /\ \A k \in DOMAIN Input : from_string(k).x # x \/ from_string(k).z # z
          /\ Key(x, TARGET_HEIGHT, z) \in DOMAIN Output

-----------------------------------------------------------------------------
(* C5 *)

\* C5: every output entry with y >= TARGET_HEIGHT is a generated surface
\* cell, a kept block of the liquid type (WATER_STILL) at y = TARGET_HEIGHT,
\* or a marker cell; the only entries with y > TARGET_HEIGHT are the marker
\* cells; every input block at y >= TARGET_HEIGHT that is not of the liquid
\* type is dropped by the retention step.
NoFloatingBlocks ==
    Rebuilt =>
        /\ \A k \in DOMAIN Output :
              from_string(k).y >= TARGET_HEIGHT =>
                  /\ \/ /\ k \in SurfaceKeys(bounds.min_x..bounds.max_x,
                                             bounds.min_z..bounds.max_z)
                        /\ Output[k] = IdOf(GRASS)
                     \/ /\ from_string(k).y = TARGET_HEIGHT
                        /\ k \in DOMAIN Input
                        /\ Input[k] = IdOf(WATER_STILL)
                        /\ Output[k] = IdOf(WATER_STILL)
                     \/ /\ k \in MarkerKeys(center)
                        /\ Output[k] = IdOf(STONE_BRICKS)
                  /\ from_string(k).y > TARGET_HEIGHT => k \in MarkerKeys(center)
        /\ \A k \in DOMAIN Input :
              (Input[k] # IdOf(WATER_STILL) /\ from_string(k).y >= TARGET_HEIGHT) =>
                  k \notin DOMAIN underground_blocks

\* a stone above the surface and a lava block at the surface were dropped
FloatingBlocksDropped ==
    /\ Rebuilt
    /\ \E k \in DOMAIN Input :
          /\ ~IsLiquid(Input[k])
          /\ from_string(k).y > TARGET_HEIGHT
          /\ k \notin DOMAIN Output
    /\ \E k \in DOMAIN Input :
          /\ Input[k] # IdOf(WATER_STILL)
          /\ from_string(k).y = TARGET_HEIGHT
          /\ k \notin DOMAIN underground_blocks

-----------------------------------------------------------------------------
(* C6 *)

\* C6: with (cx, cz) the floor of the midpoints of the input's bounding box,
\* the output holds the STONE_BRICKS ID at (cx, TARGET_HEIGHT + h, cz) for
\* every h in 1..CENTER_MARKER_HEIGHT, and nothing else at those coordinates.
MarkerPlacement ==
    Rebuilt =>
        LET b == InputBounds
        IN  \E cx \in b.min_x..b.max_x, cz \in b.min_z..b.max_z :
                /\ 2 * cx <= b.min_x + b.max_x
                /\ b.min_x + b.max_x <= 2 * cx + 1
                /\ 2 * cz <= b.min_z + b.max_z
                /\ b.min_z + b.max_z <= 2 * cz + 1
                /\ \A h \in 1..CENTER_MARKER_HEIGHT :
                      /\ Key(cx, TARGET_HEIGHT + h, cz) \in DOMAIN Output
                      /\ \A k \in DOMAIN Output :
                            from_string(k) = [ok |-> TRUE, x |-> cx,
                                              y |-> TARGET_HEIGHT + h, z |-> cz] =>
                                Output[k] = IdOf(STONE_BRICKS)

\* the marker stands where the input had a water block, at a center whose
\* coordinate sum is odd and negative
MarkerOverWater ==
    /\ Rebuilt
    /\ (bounds.min_x + bounds.max_x) % 2 = 1
    /\ bounds.min_x + bounds.max_x < 0
    /\ LET k == Key(center.x, TARGET_HEIGHT + 1, center.z)
       IN  /\ k \in DOMAIN Input
           /\ Input[k] = IdOf(WATER_STILL)
           /\ Output[k] = IdOf(STONE_BRICKS)

-----------------------------------------------------------------------------
(* C7 *)

\* the i-th run has built its output
Built(i) == i < Len(history) \/ Rebuilt

\* C7: a run on the output of a completed run computes the same bounding
\* box, center, surface and marker cells, and its output mapping equals its
\* input mapping.
Idempotence ==
    \A i \in 2..Len(history) :
        Built(i) =>
            /\ history[i - 1].complete
            /\ history[i].input = history[i - 1].output
            /\ history[i].bounds = history[i - 1].bounds
            /\ history[i].center = history[i - 1].center
            /\ history[i].surface = history[i - 1].surface
            /\ \A k \in MarkerKeys(history[i].center) :
                  history[i].output[k] = history[i - 1].output[k]
            /\ history[i].output = history[i].input

\* a second run is done, after a first run that pruned, kept and generated
SecondRunDone ==
    /\ Len(history) >= 2
    /\ pc = "done"
    /\ history[1].input # history[1].output
    /\ \E k \in DOMAIN history[1].input : k \notin DOMAIN history[1].output
    /\ \E k \in DOMAIN history[1].input :
          k \in DOMAIN history[1].output /\ from_string(k).y = TARGET_HEIGHT

-----------------------------------------------------------------------------
(* C8 *)

\* C8 (as claimed): a run ends either with both files holding the new
\* document or with both files holding their pre-run contents.
AllOrNothing ==
    pc \in {"done", "failed"} =>
        \/ source_file = NewDocument /\ save_file = NewDocument
        \/ FilesAsBefore

\* C8 (amended): nothing is written before save_map; a run that fails
\* before save_map leaves both files as they were; the secondary file is
\* written only once the source file holds the whole new document; a failure
\* in save_map leaves the source file as it was or cut short and the
\* secondary file as it was; a failure in the copy leaves the source file
\* rewritten and the secondary file as it was, cut short or rewritten; a run
\* that completes leaves both files holding the new document.
WritesInOrder ==
    /\ pc \in {"load", "types", "bounds", "surface", "process", "marker", "save"}
          => FilesAsBefore
    /\ (pc = "failed" /\ err \notin OSErrors) => FilesAsBefore
    /\ save_file # pre.save => source_file = NewDocument
    /\ (pc = "failed" /\ err \in {"OSError: open source", "OSError: write source"})
          => /\ source_file \in {pre.source, Truncated}
             /\ save_file = pre.save
    /\ (pc = "failed"
        /\ err \in {"OSError: open copy", "OSError: write copy", "OSError: copystat"})
          => /\ source_file = NewDocument
             /\ save_file \in {pre.save, Truncated, NewDocument}
    /\ pc = "done" => source_file = NewDocument /\ save_file = NewDocument

\* a run that failed in the copy: the source file is rewritten, the
\* secondary file is not
OneFileRewritten ==
    /\ pc = "failed"
    /\ err = "OSError: open copy"
    /\ source_file = NewDocument
    /\ source_file # pre.source
    /\ save_file = pre.save

-----------------------------------------------------------------------------
(* C9 *)

\* C9: with an empty block mapping the run is fatal through a dedicated
\* emptiness check, not through min() of an empty sequence; no bounding box
\* is produced and no file is written.
EmptyMappingExplicitError ==
    (map_data.kind = "json" /\ DOMAIN Input = {}
     /\ pc \notin {"load", "types", "bounds"}) =>
        /\ pc = "failed"
        /\ err # "ValueError: min() arg is an empty sequence"
        /\ bounds = NoBounds
        /\ FilesAsBefore

-----------------------------------------------------------------------------
(* C10 *)

\* no entry of the table normalises to the name
Missing(table, name) == \A i \in DOMAIN table : AttrName(table[i].name) # name

\* the first required name main() looks up that the table lacks
FirstMissing(table) ==
    IF Missing(table, GRASS) THEN "AttributeError: GRASS"
    ELSE IF Missing(table, WATER_STILL) THEN "AttributeError: WATER_STILL"
    ELSE "AttributeError: STONE_BRICKS"

\* C10: when the table has no entry that normalises to GRASS, WATER_STILL or
\* STONE_BRICKS and the mapping is not empty, the run aborts at the first
\* lookup of a missing name: no step after that lookup runs (no ID stands in
\* for the missing one), the run never reaches save_map and both files keep
\* their contents.
MissingNameAborts ==
    LET doc == pre.source
    IN  (/\ doc.kind = "json"
         /\ DOMAIN doc.blocks # {}
         /\ \E n \in {GRASS, WATER_STILL, STONE_BRICKS} : Missing(doc.blockTypes, n)) =>
            /\ FilesAsBefore
            /\ pc \notin {"save", "copy", "done"}
            /\ Missing(doc.blockTypes, GRASS)
                  => pc \notin {"process", "marker"} /\ new_blocks = EmptyDict
            /\ Missing(doc.blockTypes, WATER_STILL)
                  => pc # "marker" /\ underground_blocks = EmptyDict
            /\ (pc = "failed" /\ \A k \in DOMAIN doc.blocks : from_string(k).ok)
                  => err = FirstMissing(doc.blockTypes)

\* the run aborted at the lookup of WATER_STILL, after the surface was built
AbortedAtWaterLookup ==
    /\ pc = "failed"
    /\ err = "AttributeError: WATER_STILL"
    /\ DOMAIN Input # {}
    /\ DOMAIN new_blocks # {}
    /\ FilesAsBefore

=============================================================================
